---- MODULE Spec2Model ----
(***************************************************************************)
(* A model of the ring buffer of src/src/lib.rs.                           *)
(*                                                                         *)
(* The program state is the RingBuffer struct: buf, start, end.  Every     *)
(* public method is a pure operator over a record [buf, start, end],       *)
(* written as the method computes it, and an action that applies it to     *)
(* the buffer.  The remaining variables are history variables: they        *)
(* record the last call (its name, argument, returned value, the buffer    *)
(* before it), the pushes made onto a freshly constructed buffer, the      *)
(* latest run of consecutive pushes and whether a push has overflowed, so  *)
(* that the contracts of the methods can be stated as state predicates.    *)
(***************************************************************************)
EXTENDS Integers, Sequences, FiniteSets

\* Capacity of the backing array.  The source sets 1024 (lib.rs:7) and its
\* tests run with 10 (lib.rs:111); the model runs on a small capacity.
RING_SIZE == 4

\* Bytes given to push and append (u8 in the source).  The code only copies
\* bytes, it never computes on them, so one value equal to the initial fill
\* and one different from it tell apart any loss or reordering.
Byte == {0, 1}

\* Longest vector handed to append.
MaxAppendLen == 2

\* A fresh buffer's run of pushes is recorded up to RING_SIZE + MaxExtra pushes.
MaxExtra == 2

\* An index / shift count far above the capacity.
BigIndex == 2147483000

\* Arguments tried for read(index) and shift_l(num).
Indices == (0..(RING_SIZE + 1)) \cup {BigIndex}

RECURSIVE SeqsUpTo(_)
SeqsUpTo(n) ==
    IF n = 0 THEN {<< >>}
    ELSE LET shorter == SeqsUpTo(n - 1)
         IN  shorter \cup {Append(s, b) : s \in {t \in shorter : Len(t) = n - 1}, b \in Byte}

\* Arguments tried for append(vec).
Vecs == SeqsUpTo(MaxAppendLen)

VARIABLES
    buf,      \* RingBuffer.buf: [0..RING_SIZE-1 -> u8]
    start,    \* RingBuffer.start
    end,      \* RingBuffer.end
    op,       \* history: name of the last call
    arg,      \* history: its argument
    ret,      \* history: its returned value
    inner,    \* history: the flags of the pushes the last call performed
    pre,      \* history: the buffer before the last call (new() has none: new)
    fresh,    \* history: only pushes have been made since the last new()
    pushed,   \* history: the bytes pushed since new(), while fresh
    flags,    \* history: the flags those pushes returned
    run,      \* history: the bytes of the latest push calls made with no other
              \*          call in between, the last RING_SIZE of them at most
    overflowed \* history: a push has returned true and neither new(), clear()
              \*          nor a successful shift_l(num), num >= 1, came after it

vars == << buf, start, end, op, arg, ret, inner, pre, fresh, pushed, flags,
           run, overflowed >>

\* The buffer as one value.
self == [buf |-> buf, start |-> start, end |-> end]

----------------------------------------------------------------------------
(* The methods of RingBuffer, as pure operators.                            *)

\* RingBuffer::new
new == [buf |-> [i \in 0..(RING_SIZE - 1) |-> 0], start |-> 0, end |-> 1]

len_emptyWhenEqual(rb) ==
    IF rb.start <= rb.end THEN rb.end - rb.start
    ELSE RING_SIZE - (rb.start - rb.end)

\* RingBuffer::len
len(rb) ==
    IF rb.start < rb.end THEN rb.end - rb.start
    ELSE RING_SIZE - (rb.start - rb.end)

clear_noZero(rb) == [buf |-> rb.buf, start |-> 0, end |-> 1]

clear_zeroAll(rb) ==
    [buf |-> [i \in 0..(RING_SIZE - 1) |-> 0], start |-> 0, end |-> 1]

\* RingBuffer::clear
clear(rb) == [buf |-> [rb.buf EXCEPT ![0] = 0], start |-> 0, end |-> 1]

push_noEvict(rb, val) ==
    [rb   |-> [buf   |-> [rb.buf EXCEPT ![rb.end] = val],
               start |-> rb.start,
               end   |-> (rb.end + 1) % RING_SIZE],
     flag |-> (rb.start = rb.end)]

push_writeAhead(rb, val) ==
    [rb   |-> [buf   |-> [rb.buf EXCEPT ![(rb.end + 1) % RING_SIZE] = val],
               start |-> IF rb.start = rb.end THEN (rb.start + 1) % RING_SIZE
                         ELSE rb.start,
               end   |-> (rb.end + 1) % RING_SIZE],
     flag |-> (rb.start = rb.end)]

push_flagEarly(rb, val) ==
    [rb   |-> [buf   |-> [rb.buf EXCEPT ![rb.end] = val],
               start |-> IF rb.start = rb.end THEN (rb.start + 1) % RING_SIZE
                         ELSE rb.start,
               end   |-> (rb.end + 1) % RING_SIZE],
     flag |-> (rb.start = (rb.end + 1) % RING_SIZE)]

push_endNoWrap(rb, val) ==
    [rb   |-> [buf   |-> [rb.buf EXCEPT ![rb.end] = val],
               start |-> IF rb.start = rb.end THEN (rb.start + 1) % RING_SIZE
                         ELSE rb.start,
               end   |-> rb.end + 1],
     flag |-> (rb.start = rb.end)]

\* RingBuffer::push: the buffer after the call and the returned overflow flag.
push(rb, val) ==
    [rb   |-> [buf   |-> [rb.buf EXCEPT ![rb.end] = val],
               start |-> IF rb.start = rb.end THEN (rb.start + 1) % RING_SIZE
                         ELSE rb.start,
               end   |-> (rb.end + 1) % RING_SIZE],
     flag |-> (rb.start = rb.end)]

\* The loop of RingBuffer::append from index i on (i counts from 0 as in the
\* source; vec is a 1-based sequence): flag is the local of the same name,
\* fl collects the flag of every push performed.
RECURSIVE append_loop(_, _, _, _, _)
append_loop(rb, vec, i, flag, fl) ==
    IF i < Len(vec)
    THEN LET p == push(rb, vec[i + 1])
         IN  append_loop(p.rb, vec, i + 1, p.flag, Append(fl, p.flag))
    ELSE [rb |-> rb, flag |-> flag, inner |-> fl]

append_firstFlag(rb, vec) ==
    LET r == append_loop(rb, vec, 0, FALSE, << >>)
    IN  [rb |-> r.rb, flag |-> (r.inner # << >> /\ r.inner[1]), inner |-> r.inner]

append_skipFirst(rb, vec) == append_loop(rb, vec, 1, FALSE, << >>)

\* RingBuffer::append: the buffer after the call, the returned flag, and the
\* flags of the pushes it made.
append(rb, vec) == append_loop(rb, vec, 0, FALSE, << >>)

get_all_inclusive(rb) ==
    LET data_len == len(rb)
    IN  [i \in 1..(data_len + 1) |-> rb.buf[(rb.start + (i - 1)) % RING_SIZE]]

\* RingBuffer::get_all: a 1-based sequence of len(rb) bytes.
get_all(rb) ==
    LET data_len == len(rb)
    IN  [i \in 1..data_len |-> rb.buf[(rb.start + (i - 1)) % RING_SIZE]]

\* Option<u8>
None == [tag |-> "None"]
Some(v) == [tag |-> "Some", val |-> v]

read_noOffset(rb, index) ==
    IF index < len(rb) THEN Some(rb.buf[index % RING_SIZE]) ELSE None

\* RingBuffer::read
read(rb, index) ==
    IF index < len(rb)
    THEN LET i == (index + rb.start) % RING_SIZE
         IN  Some(rb.buf[i])
    ELSE None

\* Result<(), &'static str>
Ok == [tag |-> "Ok"]
Err(msg) == [tag |-> "Err", msg |-> msg]

shift_l_fromZero(rb, num) ==
    IF num < len(rb)
    THEN [rb |-> [rb EXCEPT !.start = num % RING_SIZE], res |-> Ok]
    ELSE [rb |-> rb, res |-> Err("Shift num is out of length.")]

shift_l_inclusive(rb, num) ==
    IF num <= len(rb)
    THEN [rb |-> [rb EXCEPT !.start = (rb.start + num) % RING_SIZE], res |-> Ok]
    ELSE [rb |-> rb, res |-> Err("Shift num is out of length.")]

shift_l_zeroFront(rb, num) ==
    IF num < len(rb)
    THEN [rb |-> [buf   |-> IF num >= 1 THEN [rb.buf EXCEPT ![rb.start] = 0]
                            ELSE rb.buf,
                  start |-> (rb.start + num) % RING_SIZE,
                  end   |-> rb.end],
          res |-> Ok]
    ELSE [rb |-> rb, res |-> Err("Shift num is out of length.")]

\* RingBuffer::shift_l: the buffer after the call and the returned Result.
shift_l(rb, num) ==
    IF num < len(rb)
    THEN [rb |-> [rb EXCEPT !.start = (rb.start + num) % RING_SIZE], res |-> Ok]
    ELSE [rb |-> rb, res |-> Err("Shift num is out of length.")]

----------------------------------------------------------------------------
(* The calls a program makes on its buffer.                                 *)

Init ==
    /\ buf = new.buf
    /\ start = new.start
    /\ end = new.end
    /\ op = "new"
    /\ arg = << >>
    /\ ret = << >>
    /\ inner = << >>
    /\ pre = new
    /\ fresh = TRUE
    /\ pushed = << >>
    /\ flags = << >>
    /\ run = << >>
    /\ overflowed = FALSE

\* let mut buf = RingBuffer::new();
New ==
    /\ buf' = new.buf
    /\ start' = new.start
    /\ end' = new.end
    /\ op' = "new"
    /\ arg' = << >>
    /\ ret' = << >>
    /\ inner' = << >>
    /\ pre' = new
    /\ fresh' = TRUE
    /\ pushed' = << >>
    /\ flags' = << >>
    /\ run' = << >>
    /\ overflowed' = FALSE

\* buf.clear();
Clear ==
    LET r == clear(self)
    IN  /\ buf' = r.buf
        /\ start' = r.start
        /\ end' = r.end
        /\ op' = "clear"
        /\ arg' = << >>
        /\ ret' = << >>
        /\ inner' = << >>
        /\ pre' = self
        /\ fresh' = FALSE
        /\ pushed' = << >>
        /\ flags' = << >>
        /\ run' = << >>
        /\ overflowed' = FALSE

\* buf.push(val);
Push(val) ==
    LET r == push(self, val)
        recorded == fresh /\ Len(pushed) < RING_SIZE + MaxExtra
    IN  /\ buf' = r.rb.buf
        /\ start' = r.rb.start
        /\ end' = r.rb.end
        /\ op' = "push"
        /\ arg' = val
        /\ ret' = r.flag
        /\ inner' = << r.flag >>
        /\ pre' = self
        /\ fresh' = recorded
        /\ pushed' = IF recorded THEN Append(pushed, val) ELSE << >>
        /\ flags' = IF recorded THEN Append(flags, r.flag) ELSE << >>
        /\ run' = IF Len(run) < RING_SIZE THEN Append(run, val)
                  ELSE Append(Tail(run), val)
        /\ overflowed' = (overflowed \/ r.flag)

\* buf.append(&mut vec);
AppendVec(vec) ==
    LET r == append(self, vec)
    IN  /\ buf' = r.rb.buf
        /\ start' = r.rb.start
        /\ end' = r.rb.end
        /\ op' = "append"
        /\ arg' = vec
        /\ ret' = r.flag
        /\ inner' = r.inner
        /\ pre' = self
        /\ fresh' = FALSE
        /\ pushed' = << >>
        /\ flags' = << >>
        /\ run' = << >>
        /\ overflowed' = (overflowed \/ \E i \in 1..Len(r.inner) : r.inner[i])

\* buf.read(index);
Read(index) ==
    /\ op' = "read"
    /\ arg' = index
    /\ ret' = read(self, index)
    /\ inner' = << >>
    /\ pre' = self
    /\ run' = << >>
    /\ UNCHANGED << buf, start, end, fresh, pushed, flags, overflowed >>

\* buf.get_all();
GetAll ==
    /\ op' = "get_all"
    /\ arg' = << >>
    /\ ret' = get_all(self)
    /\ inner' = << >>
    /\ pre' = self
    /\ run' = << >>
    /\ UNCHANGED << buf, start, end, fresh, pushed, flags, overflowed >>

\* buf.shift_l(num);
ShiftL(num) ==
    LET r == shift_l(self, num)
    IN  /\ buf' = r.rb.buf
        /\ start' = r.rb.start
        /\ end' = r.rb.end
        /\ op' = "shift_l"
        /\ arg' = num
        /\ ret' = r.res
        /\ inner' = << >>
        /\ pre' = self
        /\ fresh' = FALSE
        /\ pushed' = << >>
        /\ flags' = << >>
        /\ run' = << >>
        /\ overflowed' = IF r.res = Ok /\ num >= 1 THEN FALSE ELSE overflowed

Next ==
    \/ New
    \/ Clear
    \/ \E val \in Byte : Push(val)
    \/ \E vec \in Vecs : AppendVec(vec)
    \/ \E index \in Indices : Read(index)
    \/ GetAll
    \/ \E num \in Indices : ShiftL(num)

Spec == Init /\ [][Next]_vars

\* A program that uses its buffer for ever: it keeps making calls, and at
\* every length the buffer keeps coming back to, it appends a vector of
\* MaxAppendLen bytes again and again.  So the buffer fills up again and
\* again, and is appended to when full or nearly full.
FairSpec ==
    /\ Spec
    /\ WF_vars(Next)
    /\ \A k \in 1..RING_SIZE :
           SF_vars(/\ len(self) = k
                   /\ \E vec \in Vecs : Len(vec) = MaxAppendLen /\ AppendVec(vec))

----------------------------------------------------------------------------
(* Helpers of the properties.                                               *)

\* The last n elements of s.
LastN(s, n) == SubSeq(s, Len(s) - n + 1, Len(s))

\* The last element of s.
Last(s) == s[Len(s)]

\* s without its last element.
Front(s) == SubSeq(s, 1, Len(s) - 1)

\* push called on each byte of seq in order, one call after the other: the
\* buffer after the last call and that call's flag (FALSE when there is none).
RECURSIVE PushEach(_, _)
PushEach(rb, seq) ==
    IF seq = << >> THEN [rb |-> rb, flag |-> FALSE]
    ELSE push(PushEach(rb, Front(seq)).rb, Last(seq))

----------------------------------------------------------------------------
(* C1 *)

\* C1: in every reachable state 1 <= len() <= RING_SIZE.
C1_LenInRange == 1 <= len(self) /\ len(self) <= RING_SIZE

\* A full buffer whose window has wrapped, just after a rejected shift_l.
C1_Witness ==
    /\ op = "shift_l"
    /\ ret.tag = "Err"
    /\ start = end
    /\ start > 0
    /\ len(self) = RING_SIZE

(* C2 *)

\* C2: after RING_SIZE + k pushes (k >= 1) onto a fresh buffer, len() is
\* RING_SIZE, the last push returned true, and get_all() is the last RING_SIZE
\* pushed bytes in push order.
C2_PushBeyondCapacity ==
    (fresh /\ Len(pushed) >= RING_SIZE + 1) =>
        /\ len(self) = RING_SIZE
        /\ Last(flags) = TRUE
        /\ get_all(self) = LastN(pushed, RING_SIZE)

\* RING_SIZE + MaxExtra pushes, the evicted and the surviving bytes differing.
C2_Witness ==
    /\ fresh
    /\ op = "push"
    /\ Len(pushed) = RING_SIZE + MaxExtra
    /\ pushed[1] # pushed[MaxExtra + 1]
    /\ pushed[MaxExtra + 1] # Last(pushed)

(* C3 *)

\* C3: after n < RING_SIZE - 1 pushes onto a fresh buffer, len() is n + 1,
\* every push returned false, and get_all() is the initial 0 followed by the
\* pushed bytes in push order.
C3_PushBelowCapacity ==
    (fresh /\ Len(pushed) < RING_SIZE - 1) =>
        /\ len(self) = Len(pushed) + 1
        /\ \A i \in 1..Len(flags) : flags[i] = FALSE
        /\ Len(flags) = Len(pushed)
        /\ get_all(self) = << 0 >> \o pushed

\* The largest such n, with different bytes pushed.
C3_Witness ==
    /\ fresh
    /\ op = "push"
    /\ Len(pushed) = RING_SIZE - 2
    /\ pushed[1] # Last(pushed)

(* C4 *)

\* C4: push returns true exactly when len() was RING_SIZE before it; when it
\* returns false len() grew by one, when it returns true len() is still
\* RING_SIZE.
C4_PushFlag ==
    (op = "push") =>
        /\ ret <=> (len(pre) = RING_SIZE)
        /\ ~ret => len(self) = len(pre) + 1
        /\ ret => len(self) = RING_SIZE

\* An overflowing push on a wrapped window.
C4_Witness ==
    /\ op = "push"
    /\ ret = TRUE
    /\ pre.start > 0
    /\ len(pre) = RING_SIZE

(* C5 *)

\* C5: shift_l(count) with count < L = len() returns Ok, leaves len() = L -
\* count, and read(i) afterwards is read(i + count) before, for every
\* i < L - count; shift_l(L - 1) leaves len() = 1; shift_l(0) changes nothing.
C5_ShiftOk ==
    (op = "shift_l" /\ arg < len(pre)) =>
        /\ ret = Ok
        /\ len(self) = len(pre) - arg
        /\ \A i \in 0..(len(pre) - arg - 1) :
               /\ read(self, i) = read(pre, i + arg)
               /\ read(self, i).tag = "Some"
        /\ (arg = len(pre) - 1) => len(self) = 1
        /\ (arg = 0) => self = pre

\* A shift by two or more whose new start wraps around the array's end, with
\* different bytes at the old and the new front.
C5_Witness ==
    /\ op = "shift_l"
    /\ ret = Ok
    /\ arg >= 2
    /\ pre.start + arg >= RING_SIZE
    /\ len(self) >= 2
    /\ read(pre, 0) # read(self, 0)

(* C6 *)

\* C6: shift_l(count) with count >= len() returns an error and leaves start,
\* end and every slot unchanged, so len() and get_all() are as before.
C6_ShiftRejected ==
    (op = "shift_l" /\ arg >= len(pre)) =>
        /\ ret.tag = "Err"
        /\ start = pre.start
        /\ end = pre.end
        /\ buf = pre.buf
        /\ len(self) = len(pre)
        /\ get_all(self) = get_all(pre)

\* A shift by exactly the length, on a buffer holding several bytes.
C6_Witness ==
    /\ op = "shift_l"
    /\ arg = len(pre)
    /\ len(pre) > 1
    /\ ret.tag = "Err"

(* C7 *)

\* C7: right after new() and right after clear(), start = 0, end = 1,
\* len() = 1 and get_all() = [0].
C7_NewAndClear ==
    (op \in {"new", "clear"}) =>
        /\ start = 0
        /\ end = 1
        /\ len(self) = 1
        /\ get_all(self) = << 0 >>

\* clear() on a full, wrapped buffer whose slot 0 held a non-zero byte.
C7_Witness ==
    /\ op = "clear"
    /\ len(pre) = RING_SIZE
    /\ pre.start > 0
    /\ pre.buf[0] # 0

(* C8 *)

\* C8: append(seq) leaves the buffer as push called on each byte of seq in
\* order leaves it, and returns the flag of the last of those pushes; for an
\* empty seq the buffer, len() and get_all() are unchanged and it returns
\* false.
C8_AppendIsPushes ==
    (op = "append") =>
        /\ self = PushEach(pre, arg).rb
        /\ ret = PushEach(pre, arg).flag
        /\ (arg = << >>) =>
               /\ inner = << >>
               /\ self = pre
               /\ len(self) = len(pre)
               /\ get_all(self) = get_all(pre)
               /\ ret = FALSE

\* An append of different bytes that fills the buffer and then overflows.
C8_Witness ==
    /\ op = "append"
    /\ Len(arg) >= 2
    /\ arg[1] # arg[2]
    /\ len(pre) = RING_SIZE - 1
    /\ ret = TRUE

(* C9 *)

\* An append in which some push overflowed and which returned false.
C9_LossyAppend ==
    /\ op = "append"
    /\ \E i \in 1..Len(inner) : inner[i] = TRUE
    /\ ret = FALSE

\* C9 as claimed: some reachable state and input make append return false
\* although a push inside it overflowed, so a program that keeps appending
\* every input comes to such an append.
C9_Claimed == <>C9_LossyAppend

\* C9, amended: append returns true whenever a push inside it overflowed.
C9_AppendReportsOverflow ==
    (op = "append" /\ \E i \in 1..Len(inner) : inner[i] = TRUE) => ret = TRUE

\* An append whose first push fits and whose second push overflows.
C9_Witness ==
    /\ op = "append"
    /\ Len(inner) >= 2
    /\ inner[1] = FALSE
    /\ inner[2] = TRUE
    /\ ret = TRUE

(* C10 *)

\* C10: read(i) returns None when i >= len(), and element i of get_all() when
\* i < len().
C10_ReadMatchesGetAll ==
    (op = "read") =>
        /\ (arg >= len(self)) => ret = None
        /\ (arg < len(self)) => ret = Some(get_all(self)[arg + 1])
        /\ self = pre

\* A read inside the window at a position past the array's end, where the
\* byte read differs from the one at the same raw index.
C10_Witness ==
    /\ op = "read"
    /\ arg < len(self)
    /\ arg >= 1
    /\ start + arg >= RING_SIZE
    /\ ret # Some(buf[arg])

\* A read far above the capacity.
C10_WitnessBig ==
    /\ op = "read"
    /\ arg = BigIndex
    /\ ret = None

(* C11 *)

\* C11: the sequence get_all() returns has exactly len() elements.
C11_GetAllLength ==
    /\ Len(get_all(self)) = len(self)
    /\ (op = "get_all") => (Len(ret) = len(self) /\ self = pre)

\* get_all() called on a full buffer whose window wraps.
C11_Witness ==
    /\ op = "get_all"
    /\ start = end
    /\ start > 0
    /\ Len(ret) = RING_SIZE

(* C12 *)

\* C12 as claimed: between calls, start # end.
C12_Claimed == start # end

\* C12, amended: start = end is reachable, and it is exactly the full buffer:
\* between calls, start = end if and only if len() = RING_SIZE (and then
\* len() is not 0); whenever len() < RING_SIZE, start # end.
C12_EqualIsFull ==
    /\ (start = end) <=> (len(self) = RING_SIZE)
    /\ (start = end) => len(self) # 0

\* A buffer that a push which did not overflow has just made full.
C12_Witness ==
    /\ op = "push"
    /\ ret = FALSE
    /\ start = end
    /\ len(self) = RING_SIZE

(* C13 *)

\* C13: after push(v), get_all() is the previous get_all() with v appended
\* when the push did not overflow, and the previous get_all() without its
\* first element and with v appended when it overflowed.
C13_PushIsFifo ==
    (op = "push") =>
        /\ ~ret => get_all(self) = get_all(pre) \o << arg >>
        /\ ret => get_all(self) = Tail(get_all(pre)) \o << arg >>

\* An overflowing push on a wrapped window, the evicted and the pushed byte
\* differing from their neighbours.
C13_Witness ==
    /\ op = "push"
    /\ ret = TRUE
    /\ pre.start > 0
    /\ get_all(pre)[1] # get_all(pre)[2]
    /\ arg # get_all(pre)[RING_SIZE]

(* C14 *)

\* C14: 0 <= start < RING_SIZE and 0 <= end < RING_SIZE in every reachable
\* state, so the slot push writes (end), the slot clear writes (0) and every
\* slot read and get_all read lie inside the array, and the sums they are
\* computed from stay below 2 * RING_SIZE.
C14_IndicesInRange ==
    /\ start \in 0..(RING_SIZE - 1)
    /\ end \in 0..(RING_SIZE - 1)
    /\ DOMAIN buf = 0..(RING_SIZE - 1)
    /\ end \in DOMAIN buf
    /\ 0 \in DOMAIN buf
    /\ \A index \in Indices :
           (index < len(self)) =>
               /\ index + start < 2 * RING_SIZE
               /\ (index + start) % RING_SIZE \in DOMAIN buf
    /\ \A i \in 0..(len(self) - 1) : (start + i) % RING_SIZE \in DOMAIN buf

\* Both cursors at the last slot, after a push has moved them there.
C14_Witness ==
    /\ op = "push"
    /\ start = RING_SIZE - 1
    /\ end = RING_SIZE - 1

(* C15 *)

\* C15: a successful shift_l(count) changes only start: end and every slot
\* keep their values.
C15_ShiftFrame ==
    (op = "shift_l" /\ ret = Ok) =>
        /\ end = pre.end
        /\ buf = pre.buf
        /\ start = (pre.start + arg) % RING_SIZE

\* A shift that discards non-zero bytes, which stay in their slots.
C15_Witness ==
    /\ op = "shift_l"
    /\ ret = Ok
    /\ arg >= 2
    /\ pre.buf[pre.start] # 0
    /\ buf[pre.start] # 0
    /\ buf[(pre.start + 1) % RING_SIZE] # 0

(* C16 *)

\* C16: clear() writes slot 0 (to 0) and the two cursors only: every slot
\* 1..RING_SIZE-1 holds the value it held before.
C16_ClearFrame ==
    (op = "clear") =>
        /\ \A i \in 1..(RING_SIZE - 1) : buf[i] = pre.buf[i]
        /\ buf[0] = 0

\* clear() on a buffer with non-zero bytes in slots other than 0.
C16_Witness ==
    /\ op = "clear"
    /\ pre.buf[0] # 0
    /\ \E i \in 1..(RING_SIZE - 1) : buf[i] # 0

(* C17 *)

\* C17: once a push has returned true, every push that follows, made directly
\* or inside an append, returns true too, until clear() or a successful
\* shift_l(count) with count >= 1 (or a new buffer) comes in between; and an
\* append returns true exactly when at least one of its pushes overflowed.
C17_StickyOverflow ==
    [][ /\ (overflowed /\ op' \in {"push", "append"}) =>
               \A i \in 1..Len(inner') : inner'[i] = TRUE
        /\ (op' = "append") =>
               (ret' <=> \E i \in 1..Len(inner') : inner'[i] = TRUE) ]_vars

\* A push that returns true right after a push onto the same fresh buffer
\* that returned true.
C17_Witness ==
    /\ fresh
    /\ op = "push"
    /\ overflowed
    /\ Len(flags) >= 2
    /\ flags[Len(flags) - 1] = TRUE
    /\ Last(flags) = TRUE

\* An append whose first push overflows, and whose second then does too.
C17_WitnessAppend ==
    /\ op = "append"
    /\ Len(inner) >= 2
    /\ inner[1] = TRUE
    /\ inner[2] = TRUE
    /\ ret = TRUE

(* C18 *)

\* C18: RING_SIZE consecutive pushes, from any reachable state, leave
\* len() = RING_SIZE and get_all() equal to the bytes of those pushes in push
\* order, and the last of them returns true.
C18_FullRunReplaces ==
    (op = "push" /\ Len(run) = RING_SIZE) =>
        /\ len(self) = RING_SIZE
        /\ get_all(self) = run
        /\ ret = TRUE

\* Such a run of different bytes that started on a used buffer and ends on a
\* window wrapped at the last slot.
C18_Witness ==
    /\ op = "push"
    /\ Len(run) = RING_SIZE
    /\ ~fresh
    /\ start = RING_SIZE - 1
    /\ run[1] # run[2]
    /\ run[1] # run[RING_SIZE]

====
